---- MODULE Spec2Model ----
(***************************************************************************)
(* A model of the bcw-gateway reverse proxy (src/gateway.js and its        *)
(* variants under src/unnamed): the recent-request ring buffer, the        *)
(* dynamic mock table and its admin API, the express routing order, the    *)
(* target resolver, the platform classifier, the outbound query rewrite    *)
(* and the response normalizer.                                            *)
(*                                                                         *)
(* Text that the code searches or rewrites is a sequence of one-character  *)
(* strings; text that the code only stores or compares is a TLA+ string.   *)
(***************************************************************************)
EXTENDS Integers, Sequences, FiniteSets, TLC

VARIABLES
    dynamicMocks,    \* gateway.js:45   path -> MockEntry
    recentRequests,  \* gateway.js:28   the ring buffer, oldest first
    reqs,            \* the requests handed to the proxy and not yet answered
    nextId,          \* number of requests received so far (ids are 1..nextId)
    last,            \* the request answered by the latest step and its response
    outbound,        \* ghost: the requests sent to a target, as they were sent
    recorded,        \* ghost: every entry ever passed to pushRecent, in order
    adminLog,        \* ghost: every admin set/clear that passed validation
    track,           \* ghost: per request id, where it stands and its steps
    pf               \* the pure-function specifications' input and output

vars == <<dynamicMocks, recentRequests, reqs, nextId, last, outbound, recorded,
          adminLog, track, pf>>

----------------------------------------------------------------------------
(* Bounds of the model and program constants.                              *)

\* gateway.js:13  GATEWAY_STORE_MAX (200 by default), scaled down
STORE_MAX == 2

\* gateway.js:65  GET /_admin/recent returns at most this many entries
RECENT_LIMIT == 50

\* requests the model lets arrive
MaxReqs == 3

\* proxied requests that may be in flight at once
MaxInFlight == 2

None == "none"

----------------------------------------------------------------------------
(* Text.                                                                   *)

UPPER == <<"A", "B", "C", "D", "E", "F", "G", "H", "I", "J", "K", "L", "M",
           "N", "O", "P", "Q", "R", "S", "T", "U", "V", "W", "X", "Y", "Z">>

LOWER == <<"a", "b", "c", "d", "e", "f", "g", "h", "i", "j", "k", "l", "m",
           "n", "o", "p", "q", "r", "s", "t", "u", "v", "w", "x", "y", "z">>

\* String.prototype.toLowerCase on one character
LowerChar(c) ==
    IF \E i \in 1..26 : UPPER[i] = c
    THEN LOWER[CHOOSE i \in 1..26 : UPPER[i] = c]
    ELSE c

\* String.prototype.toLowerCase
ToLowerCase(s) == [i \in 1..Len(s) |-> LowerChar(s[i])]

\* does pat occur in s at position i (1-based)? ci: ignoring case
MatchesAt(s, i, pat, ci) ==
    /\ i + Len(pat) - 1 <= Len(s)
    /\ \A k \in 1..Len(pat) :
          IF ci THEN LowerChar(s[i + k - 1]) = LowerChar(pat[k])
                ELSE s[i + k - 1] = pat[k]

\* String.prototype.includes
Includes(s, pat) == \E i \in 1..(Len(s) + 1) : MatchesAt(s, i, pat, FALSE)

\* String.prototype.replace with a global regex of literal text: the matches
\* are found left to right, do not overlap, and the replacement is not rescanned
RECURSIVE ReplaceAll(_, _, _, _)
ReplaceAll(s, pat, rep, ci) ==
    IF Len(s) < Len(pat) \/ Len(pat) = 0 THEN s
    ELSE IF MatchesAt(s, 1, pat, ci)
         THEN rep \o ReplaceAll(SubSeq(s, Len(pat) + 1, Len(s)), pat, rep, ci)
         ELSE <<s[1]>> \o ReplaceAll(Tail(s), pat, rep, ci)

\* the concatenation of a sequence of texts
RECURSIVE Concat(_)
Concat(ss) == IF ss = <<>> THEN <<>> ELSE Head(ss) \o Concat(Tail(ss))

\* all sequences over S of length at most n
RECURSIVE SeqsUpTo(_, _)
SeqsUpTo(S, n) ==
    IF n = 0 THEN {<<>>}
    ELSE LET shorter == SeqsUpTo(S, n - 1)
         IN  shorter \cup {Append(t, x) : t \in shorter, x \in S}

----------------------------------------------------------------------------
(* Target resolver: pickTarget.                                            *)

\* gateway.js:17-21  the upstream base URLs (the defaults)
TARGETS ==
    [bcw      |-> "https://bcwserver.com",
     pixelgun |-> "https://secure.pixelgunserver.com",
     fyber    |-> "https://engine.fyber.com"]

\* "pixelgun"
S_PIXELGUN == <<"p", "i", "x", "e", "l", "g", "u", "n">>

\* "fyber"
S_FYBER == <<"f", "y", "b", "e", "r">>

\* "/get_files_info.php"
M_FILES ==
    <<"/", "g", "e", "t", "_", "f", "i", "l", "e", "s", "_", "i", "n", "f",
      "o", ".", "p", "h", "p">>

\* "/advert_bcw"
M_ADVERT == <<"/", "a", "d", "v", "e", "r", "t", "_", "b", "c", "w">>

\* "sdk-config"
M_SDK_CONFIG == <<"s", "d", "k", "-", "c", "o", "n", "f", "i", "g">>

\* "video-cache"
M_VIDEO_CACHE == <<"v", "i", "d", "e", "o", "-", "c", "a", "c", "h", "e">>

\* gateway.js:86-97 (the same in part_000:28-40 and part_001:31-43).
\* hostHeader is req.headers.host, <<>> when the header is missing; url is
\* req.url (the path with its query string).
pickTarget(hostHeader, url) ==
    LET host    == ToLowerCase(hostHeader)
        pathStr == url
    IN  IF \/ Includes(host, S_PIXELGUN)
           \/ Includes(pathStr, M_FILES)
           \/ Includes(pathStr, M_ADVERT)
        THEN TARGETS.pixelgun
        ELSE IF \/ Includes(host, S_FYBER)
                \/ Includes(pathStr, M_SDK_CONFIG)
                \/ Includes(pathStr, M_VIDEO_CACHE)
             THEN TARGETS.fyber
             ELSE TARGETS.bcw

\* part_002:18-25  the variant that looks for every marker in req.url and
\* never reads the Host header
pickTarget_part002(hostHeader, url) ==
    LET path == url
    IN  IF \/ Includes(path, S_PIXELGUN)
           \/ Includes(path, M_FILES)
           \/ Includes(path, M_ADVERT)
        THEN TARGETS.pixelgun
        ELSE IF \/ Includes(path, S_FYBER)
                \/ Includes(path, M_SDK_CONFIG)
                \/ Includes(path, M_VIDEO_CACHE)
             THEN TARGETS.fyber
             ELSE TARGETS.bcw

----------------------------------------------------------------------------
(* Platform classifier and response normalizer.                            *)

\* "android"
S_ANDROID == <<"a", "n", "d", "r", "o", "i", "d">>

\* "platform=android"
S_PLATFORM_ANDROID ==
    <<"p", "l", "a", "t", "f", "o", "r", "m", "=", "a", "n", "d", "r", "o",
      "i", "d">>

\* "_android.json"
S_ANDROID_JSON ==
    <<"_", "a", "n", "d", "r", "o", "i", "d", ".", "j", "s", "o", "n">>

\* "_ios.json"
S_IOS_JSON == <<"_", "i", "o", "s", ".", "j", "s", "o", "n">>

\* "iphone os"
S_IPHONE_OS == <<"i", "p", "h", "o", "n", "e", " ", "o", "s">>

\* "ipad"
S_IPAD == <<"i", "p", "a", "d">>

\* "Android"
R_ANDROID == <<"A", "n", "d", "r", "o", "i", "d">>

\* "Pixel 6"
R_PIXEL6 == <<"P", "i", "x", "e", "l", " ", "6">>

\* "application/json"
S_APPLICATION_JSON ==
    <<"a", "p", "p", "l", "i", "c", "a", "t", "i", "o", "n", "/", "j", "s",
      "o", "n">>

\* "text/"
S_TEXT == <<"t", "e", "x", "t", "/">>

\* gateway.js:99-104.  userAgent is req.headers['user-agent'] (<<>> when
\* missing), originalUrl is req.originalUrl
isLikelyAndroid(userAgent, originalUrl) ==
    LET ua   == ToLowerCase(userAgent)
        orig == ToLowerCase(originalUrl)
    IN  \/ Includes(ua, S_ANDROID)
        \/ Includes(orig, S_PLATFORM_ANDROID)
        \/ Includes(orig, S_ANDROID_JSON)

(* Bytes and characters.  A body is a sequence of bytes.  An ASCII byte is  *)
(* written as its character; BYTE_FF is the byte 0xFF, which occurs in no   *)
(* well-formed UTF-8 text; BYTE_EF, BYTE_BF, BYTE_BD are the three bytes    *)
(* that encode U+FFFD, the replacement character CHAR_FFFD.                 *)
BYTE_FF == "\\xFF"

BYTE_EF == "\\xEF"

BYTE_BF == "\\xBF"

BYTE_BD == "\\xBD"

CHAR_FFFD == "\\uFFFD"

\* Buffer.prototype.toString("utf8") (gateway.js:179) on bodies made of ASCII
\* bytes and 0xFF bytes: an ill-formed byte decodes to U+FFFD, it never throws
RECURSIVE Utf8Decode(_)
Utf8Decode(bytes) ==
    IF bytes = <<>> THEN <<>>
    ELSE IF /\ Len(bytes) >= 3
            /\ SubSeq(bytes, 1, 3) = <<BYTE_EF, BYTE_BF, BYTE_BD>>
         THEN <<CHAR_FFFD>> \o Utf8Decode(SubSeq(bytes, 4, Len(bytes)))
         ELSE IF Head(bytes) \in {BYTE_FF, BYTE_EF, BYTE_BF, BYTE_BD}
              THEN <<CHAR_FFFD>> \o Utf8Decode(Tail(bytes))
              ELSE <<Head(bytes)>> \o Utf8Decode(Tail(bytes))

\* Buffer.from(text, "utf8") (gateway.js:207)
RECURSIVE Utf8Encode(_)
Utf8Encode(chars) ==
    IF chars = <<>> THEN <<>>
    ELSE IF Head(chars) = CHAR_FFFD
         THEN <<BYTE_EF, BYTE_BF, BYTE_BD>> \o Utf8Encode(Tail(chars))
         ELSE <<Head(chars)>> \o Utf8Encode(Tail(chars))

\* gateway.js:199-202  the three replacements, in the code's order
RewriteBody(bodySnippet) ==
    ReplaceAll(
        ReplaceAll(
            ReplaceAll(bodySnippet, S_IOS_JSON, S_ANDROID_JSON, FALSE),
            S_IPHONE_OS, R_ANDROID, TRUE),
        S_IPAD, R_PIXEL6, TRUE)

\* the interceptor without the content-type test
NormalizeResponse_AnyType(userAgent, originalUrl, responseBuffer, contentType) ==
    LET bodySnippet == Utf8Decode(responseBuffer)
    IN  IF isLikelyAndroid(userAgent, originalUrl) /\ bodySnippet # <<>>
        THEN Utf8Encode(RewriteBody(bodySnippet))
        ELSE responseBuffer

\* gateway.js:197-211  what the response interceptor returns to the client.
\* responseBuffer is the upstream body, contentType is
\* proxyRes.headers['content-type'] (<<>> when missing)
NormalizeResponse(userAgent, originalUrl, responseBuffer, contentType) ==
    LET bodySnippet == Utf8Decode(responseBuffer)
    IN  IF isLikelyAndroid(userAgent, originalUrl) /\ bodySnippet # <<>>
        THEN IF \/ Includes(contentType, S_APPLICATION_JSON)
                \/ Includes(contentType, S_TEXT)
             THEN Utf8Encode(RewriteBody(bodySnippet))
             ELSE responseBuffer
        ELSE responseBuffer

----------------------------------------------------------------------------
(* The gateway: paths, requests, JSON values.                              *)

\* "/"
P_ROOT == <<"/">>

\* "/_status"
P_STATUS == <<"/", "_", "s", "t", "a", "t", "u", "s">>

\* "/_admin/mock"
P_ADMIN_MOCK == <<"/", "_", "a", "d", "m", "i", "n", "/", "m", "o", "c", "k">>

\* "/_admin/mock/clear"
P_ADMIN_CLEAR ==
    <<"/", "_", "a", "d", "m", "i", "n", "/", "m", "o", "c", "k", "/", "c",
      "l", "e", "a", "r">>

\* "/_admin/recent"
P_ADMIN_RECENT ==
    <<"/", "_", "a", "d", "m", "i", "n", "/", "r", "e", "c", "e", "n", "t">>

\* "/_admin/request/", the prefix of the route /_admin/request/:id
P_ADMIN_REQUEST ==
    <<"/", "_", "a", "d", "m", "i", "n", "/", "r", "e", "q", "u", "e", "s",
      "t", "/">>

\* "/bcw3d"
P_BCW3D == <<"/", "b", "c", "w", "3", "d">>

\* "/bcw3d?platform=android"
U_BCW3D_ANDROID ==
    <<"/", "b", "c", "w", "3", "d", "?", "p", "l", "a", "t", "f", "o", "r",
      "m", "=", "a", "n", "d", "r", "o", "i", "d">>

\* "Dalvik (Android 13)"
UA_ANDROID ==
    <<"D", "a", "l", "v", "i", "k", " ", "(", "A", "n", "d", "r", "o", "i",
      "d", " ", "1", "3", ")">>

\* "BCW/1 iPhone"
UA_IOS == <<"B", "C", "W", "/", "1", " ", "i", "P", "h", "o", "n", "e">>

\* "gw.local"
HOST_GW == <<"g", "w", ".", "l", "o", "c", "a", "l">>

\* "secure.pixelgunserver.com"
HOST_PIXELGUN ==
    <<"s", "e", "c", "u", "r", "e", ".", "p", "i", "x", "e", "l", "g", "u",
      "n", "s", "e", "r", "v", "e", "r", ".", "c", "o", "m">>

\* req.path: req.url up to its query string
RECURSIVE PathOf(_)
PathOf(url) ==
    IF url = <<>> \/ Head(url) = "?" THEN <<>>
    ELSE <<Head(url)>> \o PathOf(Tail(url))

(* A JavaScript value that a mock body may hold: a string, or an object    *)
(* that is {} (v = "") or {"<v>": true}.                                   *)
JsString(text) == [t |-> "string", v |-> text]

JsObject(key) == [t |-> "object", v |-> key]

\* JSON.stringify
JSONStringify(val) ==
    IF val.t = "string" THEN "\"" \o val.v \o "\""
    ELSE IF val.v = "" THEN "{}"
    ELSE "{\"" \o val.v \o "\":true}"

\* gateway.js:48  the default headers of a mock
DEFAULT_MOCK_HEADERS == {<<"Content-Type", "application/json">>}

H_TEXT == {<<"Content-Type", "text/plain">>, <<"X-Mock", "1">>}

(* The JSON body of an admin request is a record holding the fields that   *)
(* are present; a request's json is the set of at most one such record     *)
(* ({}: the request has no body, req.body is undefined).                   *)
Has(obj, f) == f \in DOMAIN obj

EmptyObject == [f \in {} |-> f]

\* the JSON bodies of POST /_admin/mock in the model
SetBodies ==
    { [status |-> 404],
      [path |-> <<>>, status |-> 404],
      [path |-> P_BCW3D, status |-> 200, body |-> JsObject("ok")],
      [path |-> P_BCW3D, status |-> 404, headers |-> H_TEXT,
       body |-> JsString("pong")],
      [path |-> P_STATUS] }

\* the JSON bodies of POST /_admin/mock/clear in the model
ClearBodies == { [path |-> P_BCW3D] }

\* the upstream's answers: status, content-type header, body bytes
UpstreamResponses ==
    { [status |-> 200, contentType |-> S_APPLICATION_JSON,
       body |-> <<"a">> \o S_IOS_JSON],
      [status |-> 500, contentType |-> <<>>, body |-> <<>>] }

\* the requests that clients send in the model
ReqShapes ==
    [method : {"GET"}, url : {P_ROOT, P_STATUS, P_ADMIN_RECENT},
     host : {HOST_GW}, ua : {UA_IOS}, json : {{}}, body : {<<>>}]
    \cup [method : {"POST"}, url : {P_ADMIN_MOCK}, host : {HOST_GW},
          ua : {UA_IOS}, json : {{}} \cup {{b} : b \in SetBodies},
          body : {<<>>}]
    \cup [method : {"POST"}, url : {P_ADMIN_CLEAR}, host : {HOST_GW},
          ua : {UA_IOS}, json : {{}} \cup {{b} : b \in ClearBodies},
          body : {<<>>}]
    \cup [method : {"GET"}, url : {P_BCW3D}, host : {HOST_GW},
          ua : {UA_ANDROID}, json : {{}}, body : {<<>>}]
    \cup [method : {"POST"}, url : {U_BCW3D_ANDROID}, host : {HOST_GW},
          ua : {UA_IOS}, json : {{}}, body : {S_ANDROID}]
    \cup [method : {"POST"}, url : {P_STATUS}, host : {HOST_PIXELGUN},
          ua : {UA_IOS}, json : {{}}, body : {<<>>}]

----------------------------------------------------------------------------
(* The gateway: the store.  The admin handlers are modelled as written:    *)
(* req.body is the JSON object that express.json parsed, or undefined.     *)

\* gateway.js:12  GATEWAY_VERBOSE is not set
VERBOSE == FALSE

\* gateway.js:193  the length of the response body snippet that is recorded
SNIPPET_LIMIT == 500

\* gateway.js:193  the same under GATEWAY_VERBOSE
SNIPPET_LIMIT_VERBOSE == 2000

\* String.prototype.substring(0, n)
Substring0(s, n) == SubSeq(s, 1, IF Len(s) < n THEN Len(s) ELSE n)

\* gateway.js:13  GATEWAY_STORE_MAX when the run does not set it
STORE_MAX_DEFAULT == 200

\* gateway.js:13  STORE_MAX of the run: the default in the runs of SpecRecent,
\* the scaled-down STORE_MAX in the others
StoreMaxOfRun == IF pf.kind = "recent" THEN STORE_MAX_DEFAULT ELSE STORE_MAX

\* pushRecent with pop() for shift(): the newest entry is dropped
pushRecent_EvictNewest(buffer, entry) ==
    LET pushed == Append(buffer, entry)
    IN  IF Len(pushed) > StoreMaxOfRun THEN SubSeq(pushed, 1, Len(pushed) - 1)
        ELSE pushed

\* a push that is cut off before the shift
pushRecent_PushOnly(buffer, entry) == Append(buffer, entry)

\* gateway.js:29-35  pushRecent: push, then shift when over STORE_MAX
\* (the log file of the verbose mode is not part of the state)
pushRecent(buffer, entry) ==
    LET pushed == Append(buffer, entry)
    IN  IF Len(pushed) > StoreMaxOfRun THEN Tail(pushed) ELSE pushed

\* dynamicMocks[p] is set (gateway.js:76)
HasMock(mocks, p) == p \in DOMAIN mocks

\* dynamicMocks[p] = entry (gateway.js:50)
PutMock(mocks, p, entry) ==
    [q \in DOMAIN mocks \cup {p} |-> IF q = p THEN entry ELSE mocks[q]]

\* a clear that empties the table
DeleteMock_All(mocks, p) == [q \in {} |-> q]

\* delete dynamicMocks[p] (gateway.js:58)
DeleteMock(mocks, p) == [q \in DOMAIN mocks \ {p} |-> mocks[q]]

\* gateway.js:48  the MockEntry of a request body, with the defaults of the
\* fields that are missing
MockEntryOf(b) ==
    [status  |-> IF Has(b, "status") THEN b.status ELSE 200,
     headers |-> IF Has(b, "headers") THEN b.headers ELSE DEFAULT_MOCK_HEADERS,
     body    |-> IF Has(b, "body") THEN b.body ELSE JsObject("")]

\* gateway.js:49, 57  !p: the path is missing or the empty string
MissingPath(b) == ~Has(b, "path") \/ b.path = <<>>

\* gateway.js:48, 56  req.body || {}
JsonBody(r) == IF r.json = {} THEN EmptyObject ELSE CHOOSE b \in r.json : TRUE

----------------------------------------------------------------------------
(* The gateway: routing.  express runs the handlers in the order of their  *)
(* registration; a request goes to the first one whose method and path     *)
(* match, and to the mock middleware and the proxy when none does.         *)

\* app.get also serves HEAD
GetLike == {"GET", "HEAD"}

\* /_admin/request/:id matches one non-empty segment after the prefix
IsRequestById(path) ==
    /\ Len(path) > Len(P_ADMIN_REQUEST)
    /\ SubSeq(path, 1, Len(P_ADMIN_REQUEST)) = P_ADMIN_REQUEST
    /\ \A i \in (Len(P_ADMIN_REQUEST) + 1)..Len(path) : path[i] # "/"

\* the routes, /_status registered with app.all
RouteOf_StatusAnyMethod(method, path) ==
    CASE method \in GetLike /\ path = P_ROOT         -> "root"
      [] path = P_STATUS                             -> "status"
      [] method = "POST" /\ path = P_ADMIN_MOCK      -> "adminMock"
      [] method = "POST" /\ path = P_ADMIN_CLEAR     -> "adminClear"
      [] method \in GetLike /\ path = P_ADMIN_RECENT -> "adminRecent"
      [] method \in GetLike /\ IsRequestById(path)   -> "adminRequest"
      [] OTHER                                       -> "fallthrough"

\* gateway.js:38-72  the routes registered before the mock middleware
RouteOf(method, path) ==
    CASE method \in GetLike /\ path = P_ROOT         -> "root"
      [] method \in GetLike /\ path = P_STATUS       -> "status"
      [] method = "POST" /\ path = P_ADMIN_MOCK      -> "adminMock"
      [] method = "POST" /\ path = P_ADMIN_CLEAR     -> "adminClear"
      [] method \in GetLike /\ path = P_ADMIN_RECENT -> "adminRecent"
      [] method \in GetLike /\ IsRequestById(path)   -> "adminRequest"
      [] OTHER                                       -> "fallthrough"

----------------------------------------------------------------------------
(* Outbound normalizer: the query rewrite.  A parsed query is the         *)
(* sequence of its parameters in insertion order; a parameter holds its   *)
(* key and its values, and arr tells an array (a repeated key) from a     *)
(* string.                                                                *)

\* "platform"
K_PLATFORM == <<"p", "l", "a", "t", "f", "o", "r", "m">>

\* "os_name"
K_OS_NAME == <<"o", "s", "_", "n", "a", "m", "e">>

\* "client"
K_CLIENT == <<"c", "l", "i", "e", "n", "t">>

\* "phone_model"
K_PHONE_MODEL == <<"p", "h", "o", "n", "e", "_", "m", "o", "d", "e", "l">>

\* "manufacturer"
K_MANUFACTURER ==
    <<"m", "a", "n", "u", "f", "a", "c", "t", "u", "r", "e", "r">>

\* "signature"
K_SIGNATURE == <<"s", "i", "g", "n", "a", "t", "u", "r", "e">>

\* "ios"
V_IOS == <<"i", "o", "s">>

\* "iPhone OS"
V_IPHONE_OS == <<"i", "P", "h", "o", "n", "e", " ", "O", "S">>

\* "iPad15,7"
V_IPAD157 == <<"i", "P", "a", "d", "1", "5", ",", "7">>

\* "Apple Inc."
V_APPLE == <<"A", "p", "p", "l", "e", " ", "I", "n", "c", ".">>

\* "ANDROID_BYPASS_SIGNATURE"
V_BYPASS ==
    <<"A", "N", "D", "R", "O", "I", "D", "_", "B", "Y", "P", "A", "S", "S",
      "_", "S", "I", "G", "N", "A", "T", "U", "R", "E">>

DIGITS == <<"0", "1", "2", "3", "4", "5", "6", "7", "8", "9">>

\* the characters querystring.escape leaves as they are
UNRESERVED ==
    {UPPER[i] : i \in 1..26} \cup {LOWER[i] : i \in 1..26}
        \cup {DIGITS[i] : i \in 1..10}
        \cup {"-", "_", ".", "!", "~", "*", "'", "(", ")"}

\* the other characters of the inputs, and their codes
ESCAPED == <<" ", "#", "%", "&", "+", ",", "/", ":", "=", "?">>

CODES == <<<<"2", "0">>, <<"2", "3">>, <<"2", "5">>, <<"2", "6">>,
           <<"2", "B">>, <<"2", "C">>, <<"2", "F">>, <<"3", "A">>,
           <<"3", "D">>, <<"3", "F">>>>

UpperChar(c) ==
    IF \E i \in 1..26 : LOWER[i] = c
    THEN UPPER[CHOOSE i \in 1..26 : LOWER[i] = c]
    ELSE c

IsCode(a, b) ==
    \E i \in 1..Len(CODES) : CODES[i] = <<UpperChar(a), UpperChar(b)>>

\* querystring.unescape: %XX becomes its character, in either case of the
\* hex digits; a % that starts no escape stays
RECURSIVE PercentDecode(_)
PercentDecode(s) ==
    IF s = <<>> THEN <<>>
    ELSE IF Head(s) = "%" /\ Len(s) >= 3 /\ IsCode(s[2], s[3])
         THEN <<ESCAPED[CHOOSE i \in 1..Len(CODES) :
                            CODES[i] = <<UpperChar(s[2]), UpperChar(s[3])>>]>>
                  \o PercentDecode(SubSeq(s, 4, Len(s)))
         ELSE <<Head(s)>> \o PercentDecode(Tail(s))

\* querystring.parse decodes a key or a value: + is a space, then unescape
QsDecode(s) ==
    PercentDecode([i \in 1..Len(s) |-> IF s[i] = "+" THEN " " ELSE s[i]])

\* querystring.escape on one character
EscapeChar(c) ==
    IF c \in UNRESERVED THEN <<c>>
    ELSE IF \E i \in 1..Len(ESCAPED) : ESCAPED[i] = c
         THEN <<"%">> \o CODES[CHOOSE i \in 1..Len(ESCAPED) : ESCAPED[i] = c]
         ELSE <<c>>

\* querystring.escape
QsEscape(s) == Concat([i \in 1..Len(s) |-> EscapeChar(s[i])])

\* String.prototype.split on one character
RECURSIVE Split(_, _)
Split(s, c) ==
    IF \E i \in 1..Len(s) : s[i] = c
    THEN LET i == CHOOSE j \in 1..Len(s) :
                      s[j] = c /\ \A k \in 1..(j - 1) : s[k] # c
         IN  <<SubSeq(s, 1, i - 1)>> \o Split(SubSeq(s, i + 1, Len(s)), c)
    ELSE <<s>>

HasKey(query, key) == \E i \in 1..Len(query) : query[i].key = key

IndexOfKey(query, key) == CHOOSE i \in 1..Len(query) : query[i].key = key

\* querystring.parse adds a value: a key seen again becomes an array
AddValue(query, key, val) ==
    IF HasKey(query, key)
    THEN [query EXCEPT ![IndexOfKey(query, key)] =
              [key |-> key, vals |-> Append(@.vals, val), arr |-> TRUE]]
    ELSE Append(query, [key |-> key, vals |-> <<val>>, arr |-> FALSE])

\* querystring.parse on one piece: key and value part at the first =, a
\* piece without = has the empty value, an empty piece is skipped
AddPiece(query, piece) ==
    IF piece = <<>> THEN query
    ELSE LET kv == Split(piece, "=")
             val == IF Len(kv) = 1 THEN <<>>
                    ELSE SubSeq(piece, Len(kv[1]) + 2, Len(piece))
         IN  AddValue(query, QsDecode(kv[1]), QsDecode(val))

RECURSIVE AddPieces(_, _)
AddPieces(query, pieces) ==
    IF pieces = <<>> THEN query
    ELSE AddPieces(AddPiece(query, Head(pieces)), Tail(pieces))

\* querystring.parse
QsParse(qs) == AddPieces(<<>>, Split(qs, "&"))

\* querystring.stringify on one parameter: key=value, once per value
StringifyParam(p) ==
    LET one(v) == QsEscape(p.key) \o <<"=">> \o QsEscape(v)
        RECURSIVE join(_)
        join(vs) == IF Len(vs) = 1 THEN one(vs[1])
                    ELSE one(Head(vs)) \o <<"&">> \o join(Tail(vs))
    IN  join(p.vals)

\* querystring.stringify
RECURSIVE QsStringify(_)
QsStringify(query) ==
    IF query = <<>> THEN <<>>
    ELSE IF Len(query) = 1 THEN StringifyParam(query[1])
    ELSE StringifyParam(Head(query)) \o <<"&">> \o QsStringify(Tail(query))

\* gateway.js:147  url.parse(path, true): the pathname, and the parsed
\* query behind the first ?
UrlParse(path) ==
    LET pathname == PathOf(path)
    IN  [pathname |-> pathname,
         query |-> IF Len(pathname) = Len(path) THEN <<>>
                   ELSE QsParse(SubSeq(path, Len(pathname) + 2, Len(path)))]

\* gateway.js:154  url.format({ pathname, query })
UrlFormat(pathname, query) ==
    IF query = <<>> THEN pathname
    ELSE pathname \o <<"?">> \o QsStringify(query)

\* parsed.query.key = val: in place for a key of the query, else at the end
SetParam(query, key, val) ==
    LET p == [key |-> key, vals |-> <<val>>, arr |-> FALSE]
    IN  IF HasKey(query, key)
        THEN [query EXCEPT ![IndexOfKey(query, key)] = p]
        ELSE Append(query, p)

\* !parsed.query.key: the key is not there, or holds the empty string (an
\* array is never falsy)
Falsy(query, key) ==
    \/ ~HasKey(query, key)
    \/ LET p == query[IndexOfKey(query, key)]
       IN  ~p.arr /\ p.vals[1] = <<>>

SetIfFalsy(query, key, val) ==
    IF Falsy(query, key) THEN SetParam(query, key, val) ELSE query

\* the rewrite with phone_model assigned like platform
RewriteQuery_ForcedModel(path) ==
    LET parsed == UrlParse(path)
        q1 == SetParam(parsed.query, K_PLATFORM, V_IOS)
        q2 == SetParam(q1, K_OS_NAME, V_IPHONE_OS)
        q3 == SetParam(q2, K_CLIENT, V_IOS)
        q4 == SetParam(q3, K_PHONE_MODEL, V_IPAD157)
        q5 == SetIfFalsy(q4, K_MANUFACTURER, V_APPLE)
        q6 == SetIfFalsy(q5, K_SIGNATURE, V_BYPASS)
    IN  UrlFormat(parsed.pathname, q6)

\* gateway.js:146-157  the path of the outbound request
RewriteQuery(path) ==
    LET parsed == UrlParse(path)
        q1 == SetParam(parsed.query, K_PLATFORM, V_IOS)
        q2 == SetParam(q1, K_OS_NAME, V_IPHONE_OS)
        q3 == SetParam(q2, K_CLIENT, V_IOS)
        q4 == SetIfFalsy(q3, K_PHONE_MODEL, V_IPAD157)
        q5 == SetIfFalsy(q4, K_MANUFACTURER, V_APPLE)
        q6 == SetIfFalsy(q5, K_SIGNATURE, V_BYPASS)
    IN  UrlFormat(parsed.pathname, q6)

----------------------------------------------------------------------------
(* Outbound normalizer: onProxyReq.  req.body is what express.raw          *)
(* (gateway.js:24) left of the request: a Buffer of the bytes read, and    *)
(* for a request without a body either nothing (undefined) or the empty    *)
(* object {}, as the body parser of the build has it (pf.emptyBody, the    *)
(* same for every request of a run).                                       *)

BODY_UNDEFINED == [t |-> "undefined"]

BODY_OBJECT == [t |-> "object"]

BufferOf(bytes) == [t |-> "buffer", bytes |-> bytes]

\* gateway.js:24  express.raw: req.body for the bytes that the client sent
RawBody(bytes) == IF bytes = <<>> THEN pf.emptyBody ELSE BufferOf(bytes)

\* the bytes of the inbound body
InboundBytes(reqBody) == IF reqBody.t = "buffer" THEN reqBody.bytes ELSE <<>>

\* "{}"
S_EMPTY_OBJECT == <<"{", "}">>

\* "ios"
S_IOS == <<"i", "o", "s">>

\* "[object Object]"
S_OBJECT_OBJECT ==
    <<"[", "o", "b", "j", "e", "c", "t", " ", "O", "b", "j", "e", "c", "t",
      "]">>

\* gateway.js:113-123  reqBodyText: the Buffer as UTF-8 text, another body
\* that is not falsy as JSON, "" otherwise
ReqBodyText(reqBody) ==
    IF reqBody.t = "buffer" THEN Utf8Decode(reqBody.bytes)
    ELSE IF reqBody.t = "object" THEN S_EMPTY_OBJECT
    ELSE <<>>

\* Buffer.byteLength(s, 'utf8')
RECURSIVE Utf8ByteLength(_)
Utf8ByteLength(chars) ==
    IF chars = <<>> THEN 0
    ELSE (IF Head(chars) = CHAR_FFFD THEN 3 ELSE 1) + Utf8ByteLength(Tail(chars))

NothingWritten == [written |-> {}, contentLength |-> {}]

\* gateway.js:159-168  the body that onProxyReq writes to the proxied
\* request and the content-length that it sets, if it writes one
WriteBody(reqBodyText) ==
    IF reqBodyText # <<>>
    THEN LET bodyStr == IF Includes(ToLowerCase(reqBodyText), S_ANDROID)
                        THEN ReplaceAll(reqBodyText, S_ANDROID, S_IOS, TRUE)
                        ELSE reqBodyText
         IN  [written |-> {Utf8Encode(bodyStr)},
              contentLength |-> {Utf8ByteLength(bodyStr)}]
    ELSE NothingWritten

\* part_002:46-55  the body that onProxyReq writes in the variant of
\* part_002: only when the text of req.body includes "android" as it is
WriteBody_part002(reqBody) ==
    IF reqBody.t = "undefined" THEN NothingWritten
    ELSE LET body == IF reqBody.t = "buffer" THEN Utf8Decode(reqBody.bytes)
                     ELSE S_OBJECT_OBJECT
         IN  IF Includes(body, S_ANDROID)
             THEN LET rewritten == ReplaceAll(body, S_ANDROID, S_IOS, TRUE)
                  IN  [written |-> {Utf8Encode(rewritten)},
                       contentLength |-> {Utf8ByteLength(rewritten)}]
             ELSE NothingWritten

\* the statement of the query rewrite that throws: none, url.parse (147) or
\* url.format (154)
ThrowPoints == {"none", "parse", "format"}

\* the query rewrite assigning the path before the defaults are in
RewritePath_AssignEarly(path, throwAt) ==
    IF throwAt = "parse" THEN path
    ELSE IF throwAt = "format"
         THEN LET parsed == UrlParse(path)
              IN  UrlFormat(parsed.pathname,
                            SetParam(parsed.query, K_PLATFORM, V_IOS))
         ELSE RewriteQuery(path)

\* gateway.js:146-157  proxyReq.path after the try block: line 154 assigns
\* it once, with the result of url.format; when url.parse or url.format
\* throws, line 154 has assigned nothing and the catch only logs
RewritePath(path, throwAt) ==
    IF throwAt = "parse" THEN path
    ELSE IF throwAt = "format" THEN path
         ELSE RewriteQuery(path)

\* gateway.js:142  the User-Agent of every proxied request
IOS_UA ==
    "Mozilla/5.0 (iPhone; CPU iPhone OS 15_0 like Mac OS X) AppleWebKit/605.1.15 (KHTML, like Gecko) Mobile/15E148"

\* gateway.js:137-143  the headers that onProxyReq sets (X-Gateway-ClientIP,
\* which the socket gives, is left out)
OutboundHeaders(reqId) ==
    [requestId |-> reqId, tag |-> "ybcw-gate", ua |-> IOS_UA,
     platformOverride |-> "iOS"]

\* gateway.js:134-172  onProxyReq: the proxied request
OnProxyReq(reqId, url, reqBody, throwAt) ==
    LET w == WriteBody(ReqBodyText(reqBody))
    IN  [headers |-> OutboundHeaders(reqId),
         path |-> RewritePath(url, throwAt),
         written |-> w.written,
         contentLength |-> w.contentLength]

\* part_002:42-56  onProxyReq in the variant of part_002
OnProxyReq_part002(reqId, url, reqBody, throwAt) ==
    LET w == WriteBody_part002(reqBody)
    IN  [headers |-> [platformOverride |-> "iOS"],
         path |-> url,
         written |-> w.written,
         contentLength |-> w.contentLength]

----------------------------------------------------------------------------
(* The gateway: the handlers.  A request is a record of what the client    *)
(* sent (method, url, host, ua, json, body) with its id (the uuid of       *)
(* gateway.js:108).  Routing and the handler that it selects run in one    *)
(* step, without interruption, when the request has been read; only a      *)
(* proxied request stays in flight (in reqs), with its target, until the   *)
(* upstream answers.                                                       *)

NoAnswer ==
    [id |-> 0, method |-> None, url |-> <<>>, json |-> {}, by |-> None,
     status |-> 0, headers |-> {}, body |-> [text |-> ""], mockAt |-> {}]

\* ghost: the mock installed for a path right now, as a set of at most one
MockAt(path) ==
    IF path \in DOMAIN dynamicMocks THEN {dynamicMocks[path]} ELSE {}

\* the request that arrives now
NewRequest(shape) ==
    [id |-> nextId + 1, method |-> shape.method, url |-> shape.url,
     host |-> shape.host, ua |-> shape.ua, json |-> shape.json,
     body |-> shape.body, reqBody |-> RawBody(shape.body), target |-> None,
     mockAt |-> MockAt(PathOf(shape.url))]

\* a request arrives and is routed (gateway.js:24, express.raw has read it)
Arrives(shape, route) ==
    /\ nextId < MaxReqs
    /\ nextId' = nextId + 1
    /\ RouteOf(shape.method, PathOf(shape.url)) = route

\* ghost: the request that arrives now stands at state, after steps
Tracked(state, steps) ==
    track' = Append(track, [state |-> state, gone |-> FALSE, steps |-> steps])

\* what the body of a response is: the bytes of the upstream, the list of
\* GET /_admin/recent, or a text of the gateway
BodyKind(by) ==
    IF by = "proxy" THEN "bytes" ELSE IF by = "adminRecent" THEN "list"
    ELSE "text"

\* the response leaves.  mockAt is a ghost: the mock that was installed for
\* the request's path when the request was routed
Answer(r, by, status, headers, body) ==
    last' = [id |-> r.id, method |-> r.method, url |-> r.url, json |-> r.json,
             by |-> by, status |-> status, headers |-> headers,
             body |-> (BodyKind(by) :> body), mockAt |-> r.mockAt]

\* gateway.js:38-40  GET /
Root(shape) ==
    /\ Arrives(shape, "root")
    /\ Answer(NewRequest(shape), "root", 200, {}, "Gateway is running")
    /\ Tracked("served", <<>>)
    /\ UNCHANGED <<dynamicMocks, recentRequests, reqs, outbound, recorded,
                   adminLog, pf>>

\* gateway.js:41  GET /_status
Status(shape) ==
    /\ Arrives(shape, "status")
    /\ Answer(NewRequest(shape), "status", 200, {},
              "{\"ok\":true,\"ts\":<now>}")
    /\ Tracked("served", <<>>)
    /\ UNCHANGED <<dynamicMocks, recentRequests, reqs, outbound, recorded,
                   adminLog, pf>>

\* "undefined"
S_UNDEFINED == <<"u", "n", "d", "e", "f", "i", "n", "e", "d">>

\* POST /_admin/mock storing the entry before it validates the path
AdminMock_StoreFirst(shape) ==
    /\ Arrives(shape, "adminMock")
    /\ LET r == NewRequest(shape)
           b == JsonBody(r)
       IN  IF MissingPath(b)
           THEN /\ dynamicMocks' =
                      PutMock(dynamicMocks, S_UNDEFINED, MockEntryOf(b))
                /\ Answer(r, "adminMock", 400, {},
                          "{\"error\":\"missing path\"}")
                /\ UNCHANGED adminLog
           ELSE /\ dynamicMocks' = PutMock(dynamicMocks, b.path, MockEntryOf(b))
                /\ adminLog' = Append(adminLog, [op |-> "set", json |-> b])
                /\ Answer(r, "adminMock", 200, {}, "{\"ok\":true}")
    /\ Tracked("served", <<>>)
    /\ UNCHANGED <<recentRequests, reqs, outbound, recorded, pf>>

\* gateway.js:47-53  POST /_admin/mock
AdminMock(shape) ==
    /\ Arrives(shape, "adminMock")
    /\ LET r == NewRequest(shape)
           b == JsonBody(r)
       IN  IF MissingPath(b)
           THEN /\ Answer(r, "adminMock", 400, {},
                          "{\"error\":\"missing path\"}")
                /\ UNCHANGED <<dynamicMocks, adminLog>>
           ELSE /\ dynamicMocks' = PutMock(dynamicMocks, b.path, MockEntryOf(b))
                /\ adminLog' = Append(adminLog, [op |-> "set", json |-> b])
                /\ Answer(r, "adminMock", 200, {}, "{\"ok\":true}")
    /\ Tracked("served", <<>>)
    /\ UNCHANGED <<recentRequests, reqs, outbound, recorded, pf>>

\* gateway.js:55-61  POST /_admin/mock/clear
AdminMockClear(shape) ==
    /\ Arrives(shape, "adminClear")
    /\ LET r == NewRequest(shape)
           b == JsonBody(r)
       IN  IF MissingPath(b)
           THEN /\ Answer(r, "adminClear", 400, {},
                          "{\"error\":\"missing path\"}")
                /\ UNCHANGED <<dynamicMocks, adminLog>>
           ELSE /\ dynamicMocks' = DeleteMock(dynamicMocks, b.path)
                /\ adminLog' = Append(adminLog, [op |-> "clear", json |-> b])
                /\ Answer(r, "adminClear", 200, {}, "{\"ok\":true}")
    /\ Tracked("served", <<>>)
    /\ UNCHANGED <<recentRequests, reqs, outbound, recorded, pf>>

\* Array.prototype.reverse
Reverse(seq) == [i \in 1..Len(seq) |-> seq[Len(seq) + 1 - i]]

\* slice(0, n) for slice(-n): the oldest n
SliceLast_First(seq, n) == SubSeq(seq, 1, IF Len(seq) > n THEN n ELSE Len(seq))

\* Array.prototype.slice(-n)
SliceLast(seq, n) ==
    SubSeq(seq, IF Len(seq) > n THEN Len(seq) - n + 1 ELSE 1, Len(seq))

\* gateway.js:64-66  GET /_admin/recent
AdminRecent(shape) ==
    /\ Arrives(shape, "adminRecent")
    /\ Answer(NewRequest(shape), "adminRecent", 200, {},
              [count  |-> Len(recentRequests),
               recent |-> Reverse(SliceLast(recentRequests, RECENT_LIMIT))])
    /\ Tracked("served", <<>>)
    /\ UNCHANGED <<dynamicMocks, recentRequests, reqs, outbound, recorded,
                   adminLog, pf>>

\* a mock response that leaves the status at express's 200
MockResponse_Status200(m) ==
    [status  |-> 200,
     headers |-> m.headers,
     body    |-> IF m.body.t = "string" THEN m.body.v ELSE JSONStringify(m.body)]

\* gateway.js:78-80  the response made from a MockEntry: its headers, its
\* status, and its body as it is when a string, as JSON otherwise
MockResponse(m) ==
    [status  |-> m.status,
     headers |-> m.headers,
     body    |-> IF m.body.t = "string" THEN m.body.v ELSE JSONStringify(m.body)]

\* gateway.js:75-81  the mock middleware, a mock being installed for req.path
MockIntercept(shape) ==
    /\ Arrives(shape, "fallthrough")
    /\ HasMock(dynamicMocks, PathOf(shape.url))
    /\ LET m    == dynamicMocks[PathOf(shape.url)]
           resp == MockResponse(m)
       IN  Answer(NewRequest(shape), "mock", resp.status, resp.headers,
                  resp.body)
    /\ Tracked("mockServed", <<"mockCheck">>)
    /\ UNCHANGED <<dynamicMocks, recentRequests, reqs, outbound, recorded,
                   adminLog, pf>>

\* gateway.js:82, 107-223  no mock: next(), and the proxy middleware reads
\* the body, picks the target and hands the request to the proxy, which
\* calls onProxyReq and sends the request to the target
ProxyMiddleware(shape) ==
    /\ Arrives(shape, "fallthrough")
    /\ ~HasMock(dynamicMocks, PathOf(shape.url))
    /\ Cardinality(reqs) < MaxInFlight
    /\ LET target == pickTarget(shape.host, shape.url)
           r      == [NewRequest(shape) EXCEPT !.target = target]
       IN  /\ reqs' = reqs \cup {r}
           /\ outbound' = outbound \cup
                  {[id |-> r.id, target |-> target, mockAt |-> r.mockAt,
                    host |-> r.host, url |-> r.url, reqBody |-> r.reqBody,
                    method |-> r.method, ua |-> r.ua, body |-> r.body,
                    req |-> OnProxyReq(r.id, r.url, r.reqBody, "none")]}
    /\ Tracked("forwarded",
               <<"mockCheck", "pickTarget", "onProxyReq", "forward">>)
    /\ UNCHANGED <<dynamicMocks, recentRequests, last, recorded, adminLog, pf>>

\* gateway.js:182-195  the entry recorded for a request and its response
\* (ts, took and clientIp, which the clock and the socket give, are left out)
RecentEntry(r, u) ==
    LET reqBodyText == ReqBodyText(r.reqBody)
        bodySnippet == Utf8Decode(u.body)
    IN  [id |-> r.id, ua |-> r.ua, method |-> r.method, url |-> r.url,
         target |-> r.target,
         requestBody |-> IF VERBOSE THEN reqBodyText
                         ELSE IF reqBodyText # <<>> THEN "[present]" ELSE "",
         status |-> u.status,
         responseBodySnippet |->
             IF VERBOSE THEN Substring0(bodySnippet, SNIPPET_LIMIT_VERBOSE)
             ELSE IF bodySnippet # <<>>
                  THEN Substring0(bodySnippet, SNIPPET_LIMIT) ELSE ""]

\* ghost: the request r has reached state, after more steps
Reached(r, state, steps) ==
    track' = [track EXCEPT ![r.id].state = state,
                           ![r.id].steps = @ \o steps]

\* the response leaves, unless the client has gone
AnswerIfThere(r, by, status, headers, body) ==
    IF track[r.id].gone THEN UNCHANGED last
    ELSE Answer(r, by, status, headers, body)

\* the interceptor recording the response after it has rewritten it
OnProxyRes_RewriteFirst(r, u) ==
    LET body == NormalizeResponse(r.ua, r.url, u.body, u.contentType)
        entry == RecentEntry(r, [u EXCEPT !.body = body])
    IN  /\ recentRequests' = pushRecent(recentRequests, entry)
        /\ recorded' = Append(recorded, entry)
        /\ reqs' = reqs \ {r}
        /\ AnswerIfThere(r, "proxy", u.status,
                         {<<"content-type", u.contentType>>}, body)
        /\ Reached(r, "recorded", <<"rewriteResponse", "pushRecent">>)
        /\ UNCHANGED <<dynamicMocks, nextId, outbound, adminLog, pf>>

\* gateway.js:174-216  the upstream has answered u: the interceptor records
\* the entry (182-195), then rewrites the body (197-211), and the proxy
\* sends what it returns to the client
OnProxyRes(r, u) ==
    /\ recentRequests' = pushRecent(recentRequests, RecentEntry(r, u))
    /\ recorded' = Append(recorded, RecentEntry(r, u))
    /\ reqs' = reqs \ {r}
    /\ AnswerIfThere(r, "proxy", u.status, {<<"content-type", u.contentType>>},
                     NormalizeResponse(r.ua, r.url, u.body, u.contentType))
    /\ Reached(r, "recorded", <<"pushRecent", "rewriteResponse">>)
    /\ UNCHANGED <<dynamicMocks, nextId, outbound, adminLog, pf>>

\* the statuses of the proxy's own error response
GatewayErrors == {500, 504}

\* the other target after a failure
NextTargetOf(target) ==
    IF target = TARGETS.bcw THEN TARGETS.pixelgun ELSE TARGETS.bcw

\* a proxy that fails over to another target when the forward fails
ProxyError_FailOver(r, status) ==
    LET again == [r EXCEPT !.target = NextTargetOf(r.target)]
    IN  /\ reqs' = (reqs \ {r}) \cup {again}
        /\ outbound' = outbound \cup
               {[id |-> r.id, target |-> again.target, mockAt |-> r.mockAt,
                 host |-> r.host, url |-> r.url, reqBody |-> r.reqBody,
                    method |-> r.method, ua |-> r.ua, body |-> r.body,
                 req |-> OnProxyReq(r.id, r.url, r.reqBody, "none")]}
        /\ Reached(r, "forwarded", <<>>)
        /\ UNCHANGED <<dynamicMocks, recentRequests, nextId, last, recorded,
                       adminLog, pf>>

\* a proxy whose error handler records the failed request
ProxyError_Recorded(r, status) ==
    LET entry == RecentEntry(r, [status |-> status, contentType |-> <<>>,
                                 body |-> <<>>])
    IN  /\ recentRequests' = pushRecent(recentRequests, entry)
        /\ recorded' = Append(recorded, entry)
        /\ reqs' = reqs \ {r}
        /\ AnswerIfThere(r, "proxyError", status, {},
                         "Error occurred while trying to proxy")
        /\ Reached(r, "failed", <<"error">>)
        /\ UNCHANGED <<dynamicMocks, nextId, outbound, adminLog, pf>>

\* gateway.js:129-220  the forward fails (the target cannot be reached, the
\* connection breaks or times out): the options name no error handler and
\* no other target, so the proxy answers with its own error response, and
\* neither onProxyRes nor pushRecent runs
ProxyError(r, status) ==
    /\ reqs' = reqs \ {r}
    /\ AnswerIfThere(r, "proxyError", status, {},
                     "Error occurred while trying to proxy")
    /\ Reached(r, "failed", <<"error">>)
    /\ UNCHANGED <<dynamicMocks, recentRequests, nextId, outbound, recorded,
                   adminLog, pf>>

\* the client of a request in flight closes its connection.  Nothing in
\* gateway.js:107-223 listens to it: the request stays with the proxy
ClientDisconnect(r) ==
    /\ ~track[r.id].gone
    /\ track' = [track EXCEPT ![r.id].gone = TRUE]
    /\ UNCHANGED <<dynamicMocks, recentRequests, reqs, nextId, last, outbound,
                   recorded, adminLog, pf>>

Init ==
    /\ dynamicMocks = EmptyObject
    /\ recentRequests = <<>>
    /\ reqs = {}
    /\ nextId = 0
    /\ last = NoAnswer
    /\ outbound = {}
    /\ recorded = <<>>
    /\ adminLog = <<>>
    /\ track = <<>>
    /\ pf = [kind |-> "gateway", emptyBody |-> BODY_UNDEFINED]

Next ==
    \/ \E shape \in ReqShapes : Root(shape)
    \/ \E shape \in ReqShapes : Status(shape)
    \/ \E shape \in ReqShapes : AdminMock(shape)
    \/ \E shape \in ReqShapes : AdminMockClear(shape)
    \/ \E shape \in ReqShapes : AdminRecent(shape)
    \/ \E shape \in ReqShapes : MockIntercept(shape)
    \/ \E shape \in ReqShapes : ProxyMiddleware(shape)
    \/ \E r \in reqs : \E u \in UpstreamResponses : OnProxyRes(r, u)
    \/ \E r \in reqs : \E status \in GatewayErrors : ProxyError(r, status)

\* Spec: the gateway with all the requests of ReqShapes, whose clients wait
\* for their answers
Spec == Init /\ [][Next]_vars

(* SpecFlow: the gateway with fewer kinds of requests, with either body     *)
(* parser, and with clients that may close the connection while their     *)
(* request is with the proxy.  SpecFlowLive, on two kinds of requests,     *)
(* adds what the transport gives: a forward ends, with the response of the *)
(* upstream or with an error.                                              *)

FlowShapes ==
    [method : {"GET"}, url : {P_STATUS}, host : {HOST_GW}, ua : {UA_IOS},
     json : {{}}, body : {<<>>}]
    \cup [method : {"POST"}, url : {P_ADMIN_MOCK}, host : {HOST_GW},
          ua : {UA_IOS},
          json : {{[path |-> P_BCW3D, status |-> 200,
                    body |-> JsObject("ok")]}},
          body : {<<>>}]
    \cup [method : {"POST"}, url : {P_ADMIN_CLEAR}, host : {HOST_GW},
          ua : {UA_IOS}, json : {{b} : b \in ClearBodies}, body : {<<>>}]
    \cup [method : {"GET"}, url : {P_BCW3D}, host : {HOST_GW},
          ua : {UA_ANDROID}, json : {{}}, body : {<<>>}]
    \cup [method : {"POST"}, url : {U_BCW3D_ANDROID}, host : {HOST_PIXELGUN},
          ua : {UA_IOS}, json : {{}}, body : {S_ANDROID}]

InitFlow ==
    /\ dynamicMocks = EmptyObject
    /\ recentRequests = <<>>
    /\ reqs = {}
    /\ nextId = 0
    /\ last = NoAnswer
    /\ outbound = {}
    /\ recorded = <<>>
    /\ adminLog = <<>>
    /\ track = <<>>
    /\ pf \in [kind : {"flow"}, emptyBody : {BODY_UNDEFINED, BODY_OBJECT}]

\* the forward of the request with this id ends
Settle(id) ==
    \E r \in reqs :
        /\ r.id = id
        /\ \/ \E u \in UpstreamResponses : OnProxyRes(r, u)
           \/ \E status \in GatewayErrors : ProxyError(r, status)

NextFlow ==
    \/ \E shape \in FlowShapes : Status(shape)
    \/ \E shape \in FlowShapes : AdminMock(shape)
    \/ \E shape \in FlowShapes : AdminMockClear(shape)
    \/ \E shape \in FlowShapes : MockIntercept(shape)
    \/ \E shape \in FlowShapes : ProxyMiddleware(shape)
    \/ \E r \in reqs : \E u \in UpstreamResponses : OnProxyRes(r, u)
    \/ \E r \in reqs : \E status \in GatewayErrors : ProxyError(r, status)
    \/ \E r \in reqs : ClientDisconnect(r)

SpecFlow == InitFlow /\ [][NextFlow]_vars

\* the requests of SpecFlowLive: a mock is set for /bcw3d, /bcw3d is asked for
LiveShapes ==
    {shape \in FlowShapes :
        \/ shape.url = P_ADMIN_MOCK
        \/ shape.url = P_BCW3D}

NextLive ==
    \/ \E shape \in LiveShapes : AdminMock(shape)
    \/ \E shape \in LiveShapes : MockIntercept(shape)
    \/ \E shape \in LiveShapes : ProxyMiddleware(shape)
    \/ \E r \in reqs : \E u \in UpstreamResponses : OnProxyRes(r, u)
    \/ \E r \in reqs : \E status \in GatewayErrors : ProxyError(r, status)
    \/ \E r \in reqs : ClientDisconnect(r)

SpecFlowLive ==
    InitFlow /\ [][NextLive]_vars /\ \A id \in 1..MaxReqs : WF_vars(Settle(id))

----------------------------------------------------------------------------
(* The pure functions on their own: each specification below draws an      *)
(* input, leaves the gateway idle and applies one function of the code.    *)

storeVars == <<dynamicMocks, recentRequests, reqs, nextId, last, outbound,
               recorded, adminLog, track>>

GatewayIdle ==
    /\ dynamicMocks = EmptyObject
    /\ recentRequests = <<>>
    /\ reqs = {}
    /\ nextId = 0
    /\ last = NoAnswer
    /\ outbound = {}
    /\ recorded = <<>>
    /\ adminLog = <<>>
    /\ track = <<>>

\* fragments concatenated into one input
MaxFrags == 2

(* SpecNorm: the response normalizer, on upstream bodies made of the       *)
(* fragments below (0xFF is a byte that is not UTF-8).                     *)

\* "application/json; charset=utf-8"
CT_JSON ==
    <<"a", "p", "p", "l", "i", "c", "a", "t", "i", "o", "n", "/", "j", "s",
      "o", "n", ";", " ", "c", "h", "a", "r", "s", "e", "t", "=", "u", "t",
      "f", "-", "8">>

\* "text/html"
CT_HTML == <<"t", "e", "x", "t", "/", "h", "t", "m", "l">>

\* "image/png"
CT_PNG == <<"i", "m", "a", "g", "e", "/", "p", "n", "g">>

\* "iPhone OS"
F_IPHONE_OS == <<"i", "P", "h", "o", "n", "e", " ", "O", "S">>

\* "IPAD"
F_IPAD == <<"I", "P", "A", "D">>

\* "skin_android.json"
F_SKIN ==
    <<"s", "k", "i", "n", "_", "a", "n", "d", "r", "o", "i", "d", ".", "j",
      "s", "o", "n">>

\* "ip"
F_IP == <<"i", "p">>

\* "ad"
F_AD == <<"a", "d">>

\* {"file":"
F_FILE == <<"{", "\"", "f", "i", "l", "e", "\"", ":", "\"">>

BodyFrags ==
    {S_IOS_JSON, F_IPHONE_OS, F_IPAD, F_SKIN, F_IP, F_AD, F_FILE, <<BYTE_FF>>}

NormInputs ==
    [kind : {"norm"}, st : {"input"}, ua : {UA_ANDROID, UA_IOS},
     url : {P_BCW3D, U_BCW3D_ANDROID},
     contentType : {CT_JSON, CT_HTML, CT_PNG, <<>>},
     body : {Concat(fs) : fs \in SeqsUpTo(BodyFrags, MaxFrags)},
     out : {<<>>}]

InitNorm == GatewayIdle /\ pf \in NormInputs

\* gateway.js:174-216  the interceptor runs on the buffered upstream body
Normalize ==
    /\ pf.kind = "norm" /\ pf.st = "input"
    /\ pf' = [pf EXCEPT !.st = "done",
                        !.out = NormalizeResponse(pf.ua, pf.url, pf.body,
                                                  pf.contentType)]
    /\ UNCHANGED storeVars

NextNorm == Normalize

SpecNorm == InitNorm /\ [][NextNorm]_vars

(* SpecTarget: the target resolver, in the variant of gateway.js and in    *)
(* the variant of part_002, on hosts and urls made of the fragments below. *)

\* "engine.fyber.com"
HOST_FYBER ==
    <<"e", "n", "g", "i", "n", "e", ".", "f", "y", "b", "e", "r", ".", "c",
      "o", "m">>

\* "ENGINE.FYBER.COM"
HOST_FYBER_UPPER ==
    <<"E", "N", "G", "I", "N", "E", ".", "F", "Y", "B", "E", "R", ".", "C",
      "O", "M">>

\* "/x"
SEG_X == <<"/", "x">>

\* "/fyber"
SEG_FYBER == <<"/", "f", "y", "b", "e", "r">>

\* "/pixelgun"
SEG_PIXELGUN == <<"/", "p", "i", "x", "e", "l", "g", "u", "n">>

\* "/sdk-config"
SEG_SDK == <<"/", "s", "d", "k", "-", "c", "o", "n", "f", "i", "g">>

\* "/video-cache"
SEG_VIDEO == <<"/", "v", "i", "d", "e", "o", "-", "c", "a", "c", "h", "e">>

\* "?a=1"
SEG_QUERY == <<"?", "a", "=", "1">>

UrlFrags ==
    {SEG_X, M_FILES, M_ADVERT, SEG_SDK, SEG_VIDEO, SEG_FYBER, SEG_PIXELGUN,
     SEG_QUERY}

TargetInputs ==
    [kind : {"target"}, st : {"input"},
     host : {<<>>, HOST_GW, HOST_PIXELGUN, HOST_FYBER, HOST_FYBER_UPPER},
     url : {<<"/">> \o Concat(fs) : fs \in SeqsUpTo(UrlFrags, MaxFrags)},
     variant : {None}, target : {None}]

InitTarget == GatewayIdle /\ pf \in TargetInputs

\* gateway.js:127  const target = pickTarget(req)
Resolve ==
    /\ pf.kind = "target" /\ pf.st = "input"
    /\ pf' = [pf EXCEPT !.st = "done", !.variant = "gateway.js",
                        !.target = pickTarget(pf.host, pf.url)]
    /\ UNCHANGED storeVars

\* part_002:35  const target = pickTarget(req)
ResolvePart002 ==
    /\ pf.kind = "target" /\ pf.st = "input"
    /\ pf' = [pf EXCEPT !.st = "done", !.variant = "part_002",
                        !.target = pickTarget_part002(pf.host, pf.url)]
    /\ UNCHANGED storeVars

NextTarget == Resolve \/ ResolvePart002

SpecTarget == InitTarget /\ [][NextTarget]_vars

(* SpecQuery: the query rewrite of the outbound request, applied once and *)
(* then to its own output.                                                *)

\* parameters joined into one inbound query string
MaxParams == 2

\* "platform=android"
Q_PLATFORM ==
    <<"p", "l", "a", "t", "f", "o", "r", "m", "=", "a", "n", "d", "r", "o",
      "i", "d">>

\* "os_name=Android+13"
Q_OS_NAME ==
    <<"o", "s", "_", "n", "a", "m", "e", "=", "A", "n", "d", "r", "o", "i",
      "d", "+", "1", "3">>

\* "client="
Q_CLIENT_EMPTY == <<"c", "l", "i", "e", "n", "t", "=">>

\* "phone_model="
Q_MODEL_EMPTY ==
    <<"p", "h", "o", "n", "e", "_", "m", "o", "d", "e", "l", "=">>

\* "phone_model=Pixel%2c6"
Q_MODEL ==
    <<"p", "h", "o", "n", "e", "_", "m", "o", "d", "e", "l", "=", "P", "i",
      "x", "e", "l", "%", "2", "c", "6">>

\* "manufacturer=Samsung"
Q_MANUFACTURER ==
    <<"m", "a", "n", "u", "f", "a", "c", "t", "u", "r", "e", "r", "=", "S",
      "a", "m", "s", "u", "n", "g">>

\* "signature="
Q_SIGNATURE_EMPTY == <<"s", "i", "g", "n", "a", "t", "u", "r", "e", "=">>

\* "signature=a%2520b"
Q_SIGNATURE ==
    <<"s", "i", "g", "n", "a", "t", "u", "r", "e", "=", "a", "%", "2", "5",
      "2", "0", "b">>

\* "signature"
Q_SIGNATURE_BARE == <<"s", "i", "g", "n", "a", "t", "u", "r", "e">>

\* "v=1%zz"
Q_OTHER == <<"v", "=", "1", "%", "z", "z">>

QueryFrags ==
    {Q_PLATFORM, Q_OS_NAME, Q_CLIENT_EMPTY, Q_MODEL_EMPTY, Q_MODEL,
     Q_MANUFACTURER, Q_SIGNATURE_EMPTY, Q_SIGNATURE, Q_SIGNATURE_BARE,
     Q_OTHER}

RECURSIVE JoinAmp(_)
JoinAmp(fs) ==
    IF Len(fs) = 1 THEN fs[1] ELSE Head(fs) \o <<"&">> \o JoinAmp(Tail(fs))

QueryPaths ==
    {P_BCW3D} \cup {P_BCW3D \o <<"?">> \o JoinAmp(fs) :
                       fs \in SeqsUpTo(QueryFrags, MaxParams) \ {<<>>}}

QueryInputs ==
    [kind : {"query"}, st : {"input"}, path : QueryPaths,
     once : {<<>>}, twice : {<<>>}]

InitQuery == GatewayIdle /\ pf \in QueryInputs

\* gateway.js:146-157  onProxyReq rewrites the path of the inbound request
RewriteOnce ==
    /\ pf.kind = "query" /\ pf.st = "input"
    /\ pf' = [pf EXCEPT !.st = "once", !.once = RewriteQuery(pf.path)]
    /\ UNCHANGED storeVars

\* the rewrite applied to its own output
RewriteTwice ==
    /\ pf.kind = "query" /\ pf.st = "once"
    /\ pf' = [pf EXCEPT !.st = "twice", !.twice = RewriteQuery(pf.once)]
    /\ UNCHANGED storeVars

NextQuery == RewriteOnce \/ RewriteTwice

SpecQuery == InitQuery /\ [][NextQuery]_vars

(* SpecOutbound: onProxyReq on its own, in the variant of gateway.js and   *)
(* in the variant of part_002, on paths and on bodies made of the          *)
(* fragments below.                                                        *)

\* "ANDROID"
B_ANDROID_UPPER == <<"A", "N", "D", "R", "O", "I", "D">>

\* "Android"
B_ANDROID_MIXED == <<"A", "n", "d", "r", "o", "i", "d">>

\* "platform="
B_PLATFORM == <<"p", "l", "a", "t", "f", "o", "r", "m", "=">>

\* "x=1"
B_OTHER == <<"x", "=", "1">>

\* "/bcw3d?signature="
U_BCW3D_SIGNATURE ==
    <<"/", "b", "c", "w", "3", "d", "?", "s", "i", "g", "n", "a", "t", "u",
      "r", "e", "=">>

ReqBodyFrags ==
    {S_ANDROID, B_ANDROID_UPPER, B_ANDROID_MIXED, B_PLATFORM, B_OTHER,
     <<BYTE_FF>>}

OutboundInputs ==
    [kind : {"outbound"}, st : {"input"},
     url : {P_BCW3D, U_BCW3D_ANDROID, U_BCW3D_SIGNATURE},
     body : {Concat(fs) : fs \in SeqsUpTo(ReqBodyFrags, MaxFrags)},
     emptyBody : {BODY_UNDEFINED, BODY_OBJECT},
     throwAt : ThrowPoints, variant : {None}, out : {NothingWritten},
     sent : {<<>>}]

InitOutbound == GatewayIdle /\ pf \in OutboundInputs

\* the body that reaches the upstream: what onProxyReq wrote before it ended
\* the proxied request, and otherwise what the proxy pipes from the inbound
\* stream
ForwardedBody(out, piped) ==
    IF out.written # {} THEN CHOOSE w \in out.written : TRUE ELSE piped

\* gateway.js:24, 134-172  express.raw has read the body, the proxy calls
\* onProxyReq; nothing of the inbound stream is left to pipe
NormalizeOutbound ==
    /\ pf.kind = "outbound" /\ pf.st = "input"
    /\ LET out == OnProxyReq(1, pf.url, RawBody(pf.body), pf.throwAt)
       IN  pf' = [pf EXCEPT !.st = "done", !.variant = "gateway.js",
                            !.out = out, !.sent = ForwardedBody(out, <<>>)]
    /\ UNCHANGED storeVars

\* part_002:34-66  the proxy calls onProxyReq; the variant installs no body
\* parser, so req.body is undefined and the proxy pipes the inbound body;
\* it has no query rewrite, and nothing of it throws
NormalizeOutboundPart002 ==
    /\ pf.kind = "outbound" /\ pf.st = "input" /\ pf.throwAt = "none"
    /\ LET out == OnProxyReq_part002(1, pf.url, BODY_UNDEFINED, pf.throwAt)
       IN  pf' = [pf EXCEPT !.st = "done", !.variant = "part_002",
                            !.out = out, !.sent = ForwardedBody(out, pf.body)]
    /\ UNCHANGED storeVars

NextOutbound == NormalizeOutbound \/ NormalizeOutboundPart002

SpecOutbound == InitOutbound /\ [][NextOutbound]_vars

(* SpecRecent: GET /_admin/recent on a store with the default STORE_MAX,   *)
(* which more than RECENT_LIMIT responses fill one by one.                 *)

\* responses recorded in a run of SpecRecent
MaxRecorded == 52

InitRecent ==
    GatewayIdle /\ pf = [kind |-> "recent", emptyBody |-> BODY_UNDEFINED]

\* gateway.js:182-195  onProxyRes records the entry of one more request
\* (the n-th to get its response), which is with the proxy no longer
RecordNext ==
    /\ Len(recorded) < MaxRecorded
    /\ LET r == [id |-> Len(recorded) + 1, ua |-> UA_IOS, method |-> "GET",
                 url |-> P_BCW3D, target |-> TARGETS.bcw,
                 reqBody |-> BODY_UNDEFINED]
           u == [status |-> 200, contentType |-> S_APPLICATION_JSON,
                 body |-> <<"a">>]
       IN  /\ recentRequests' = pushRecent(recentRequests, RecentEntry(r, u))
           /\ recorded' = Append(recorded, RecentEntry(r, u))
    /\ UNCHANGED <<dynamicMocks, reqs, nextId, last, outbound, adminLog,
                   track, pf>>

NextRecent ==
    \/ RecordNext
    \/ \E shape \in ReqShapes : AdminRecent(shape)

SpecRecent == InitRecent /\ [][NextRecent]_vars

----------------------------------------------------------------------------
(* Properties of the store and of the routing, under Spec.                 *)

\* the last n elements of a sequence (all of it when it is shorter)
Suffix(seq, n) ==
    IF Len(seq) <= n THEN seq
    ELSE [i \in 1..n |-> seq[Len(seq) - n + i]]

\* C1: after any sequence of pushRecent calls the ring buffer holds at most
\* STORE_MAX entries, and they are the last STORE_MAX entries recorded (all
\* of them while fewer were recorded), oldest first.
C1_RingBufferFifo ==
    /\ Len(recentRequests) <= STORE_MAX
    /\ recentRequests = Suffix(recorded, STORE_MAX)

\* more than STORE_MAX entries were recorded: the oldest has been evicted
C1_Witness ==
    /\ Len(recorded) > STORE_MAX
    /\ Len(recentRequests) = STORE_MAX
    /\ recentRequests[1].id # recorded[1].id

\* the body that a client must get from a mock: the string itself, or the
\* JSON text of the object
C2_BodyText(v) == IF v.t = "string" THEN v.v ELSE JSONStringify(v)

\* C2: a request that reaches the mock middleware while a mock is installed
\* for its path is never handed to the proxy, and its response has the
\* status, the headers and the body of that MockEntry.
C2_MockPrecedence ==
    /\ \A o \in outbound : o.mockAt = {}
    /\ \A r \in reqs : r.mockAt = {}
    /\ (last.by \in {"mock", "proxy"} /\ last.mockAt # {}) =>
          /\ last.by = "mock"
          /\ \A o \in outbound : o.id # last.id
          /\ \A m \in last.mockAt :
                /\ last.status = m.status
                /\ last.headers = m.headers
                /\ last.body.text = C2_BodyText(m.body)

\* a request was answered from a mock with a status and headers of its own
C2_Witness ==
    /\ last.by = "mock"
    /\ last.status = 404
    /\ last.headers = H_TEXT
    /\ last.body.text = "pong"

\* C3 as stated: whatever its method and path, a request for whose path a
\* mock is installed is answered from the mock.
C3_MockBeforeAnything == last.mockAt # {} => last.by = "mock"

\* the method and path pairs of the model that a route registered before
\* the mock middleware serves (gateway.js:38-72)
C3_EarlierRoutes ==
    { <<"GET", P_ROOT>>, <<"GET", P_STATUS>>, <<"POST", P_ADMIN_MOCK>>,
      <<"POST", P_ADMIN_CLEAR>>, <<"GET", P_ADMIN_RECENT>> }

C3_ByOfRoute(method, path) ==
    CASE path = P_ROOT         -> "root"
      [] path = P_STATUS       -> "status"
      [] path = P_ADMIN_MOCK   -> "adminMock"
      [] path = P_ADMIN_CLEAR  -> "adminClear"
      [] path = P_ADMIN_RECENT -> "adminRecent"

\* C3, amended: a request that no route registered before the mock
\* middleware serves is answered from the mock when one is installed for
\* its path; a request that such a route serves is answered by that route's
\* handler, whether or not a mock is installed for its path.
C3_MockBeforeProxy ==
    last.id # 0 =>
        IF <<last.method, PathOf(last.url)>> \in C3_EarlierRoutes
        THEN last.by = C3_ByOfRoute(last.method, PathOf(last.url))
        ELSE last.mockAt # {} => last.by = "mock"

\* POST /_status, which no earlier route serves, was answered from the mock
\* installed for /_status
C3_Witness ==
    /\ last.by = "mock"
    /\ last.method = "POST"
    /\ PathOf(last.url) = P_STATUS

\* the entry that set(path, status, headers, body) installs
C4_EntryOf(json) ==
    [status  |-> IF "status" \in DOMAIN json THEN json.status ELSE 200,
     headers |-> IF "headers" \in DOMAIN json THEN json.headers
                 ELSE {<<"Content-Type", "application/json">>},
     body    |-> IF "body" \in DOMAIN json THEN json.body
                 ELSE [t |-> "object", v |-> ""]]

\* what lookup(p) must give after the admin operations of log: the entry of
\* the last set of p when no clear of p follows it, as a set of at most one
RECURSIVE C4_Expected(_, _)
C4_Expected(log, p) ==
    IF log = <<>> THEN {}
    ELSE LET op == log[Len(log)]
         IN  IF op.json.path = p
             THEN IF op.op = "set" THEN {C4_EntryOf(op.json)} ELSE {}
             ELSE C4_Expected(SubSeq(log, 1, Len(log) - 1), p)

C5_MissingPathAnswered ==
    /\ nextId' = nextId + 1
    /\ last'.id = nextId'
    /\ last'.method = "POST"
    /\ PathOf(last'.url) \in {P_ADMIN_MOCK, P_ADMIN_CLEAR}
    /\ \A b \in last'.json : "path" \notin DOMAIN b

\* C5: a mock-set or mock-clear request without a path is answered 400 and
\* leaves the mock table and the ring buffer as they were.
C5_MissingPathNoEffect ==
    [][C5_MissingPathAnswered =>
          /\ last'.status = 400
          /\ dynamicMocks' = dynamicMocks
          /\ recentRequests' = recentRequests]_vars

\* a mock-set request without a path was refused while a mock is installed
\* and the ring buffer holds an entry
C5_Witness ==
    /\ last.by = "adminMock"
    /\ last.status = 400
    /\ \A b \in last.json : "path" \notin DOMAIN b
    /\ DOMAIN dynamicMocks # {}
    /\ recentRequests # <<>>

----------------------------------------------------------------------------
(* Properties of the response normalizer, under SpecNorm.                  *)

\* the content-type names text: it contains application/json or text/
C6_Textual(contentType) ==
    \/ Includes(contentType, S_APPLICATION_JSON)
    \/ Includes(contentType, S_TEXT)

\* C6: when the client is not classified as Android, or the upstream body
\* is empty, or the content-type is not textual, the body returned to the
\* client is the upstream body, byte for byte.
C6_UntouchedWhenNotApplicable ==
    (/\ pf.kind = "norm" /\ pf.st = "done"
     /\ \/ ~isLikelyAndroid(pf.ua, pf.url)
        \/ pf.body = <<>>
        \/ ~C6_Textual(pf.contentType))
    => pf.out = pf.body

\* an Android client was sent an image whose bytes hold "_ios.json", and
\* got it untouched
C6_Witness ==
    /\ pf.kind = "norm" /\ pf.st = "done"
    /\ isLikelyAndroid(pf.ua, pf.url)
    /\ pf.contentType = CT_PNG
    /\ Includes(pf.body, S_IOS_JSON)
    /\ pf.out = pf.body

\* the upstream body after the three replacements of the claim, in order
C7_Replaced(body) ==
    ReplaceAll(
        ReplaceAll(
            ReplaceAll(body, S_IOS_JSON, S_ANDROID_JSON, FALSE),
            S_IPHONE_OS, R_ANDROID, TRUE),
        S_IPAD, R_PIXEL6, TRUE)

\* C7: for an Android client and a non-empty textual upstream body, the
\* client gets the upstream body with every "_ios.json" replaced by
\* "_android.json", every "iphone os" (any case) by "Android" and every
\* "ipad" (any case) by "Pixel 6"; a body with none of them is unchanged.
C7_AndroidTextualRewritten ==
    (/\ pf.kind = "norm" /\ pf.st = "done"
     /\ isLikelyAndroid(pf.ua, pf.url)
     /\ pf.body # <<>>
     /\ C6_Textual(pf.contentType))
    => /\ pf.out = C7_Replaced(pf.body)
       /\ C7_Replaced(pf.body) = pf.body => pf.out = pf.body

\* C7 holds of every upstream body that is well-formed UTF-8
C7_RewrittenWhenUtf8 ==
    (/\ pf.kind = "norm" /\ pf.st = "done"
     /\ isLikelyAndroid(pf.ua, pf.url)
     /\ pf.body # <<>>
     /\ C6_Textual(pf.contentType)
     /\ \A i \in 1..Len(pf.body) : pf.body[i] # BYTE_FF)
    => pf.out = C7_Replaced(pf.body)

----------------------------------------------------------------------------
(* Properties of the target resolver, under SpecTarget.                    *)

\* the host names s, in any case (host names have no case)
C9_HostHas(host, s) == Includes(ToLowerCase(host), s)

C9_PixelgunMarker(url) == Includes(url, M_FILES) \/ Includes(url, M_ADVERT)

C9_FyberMarker(url) == Includes(url, M_SDK_CONFIG) \/ Includes(url, M_VIDEO_CACHE)

\* C9: the target is Pixelgun when the host names pixelgun or the path has
\* a Pixelgun marker; else Fyber when the host names fyber or the path has
\* a Fyber marker; else BlockCity.
C9_FirstMatchWins ==
    (pf.kind = "target" /\ pf.st = "done") =>
        /\ pf.target \in {TARGETS.pixelgun, TARGETS.fyber, TARGETS.bcw}
        /\ (C9_HostHas(pf.host, S_PIXELGUN) \/ C9_PixelgunMarker(pf.url))
              => pf.target = TARGETS.pixelgun
        /\ (/\ ~(C9_HostHas(pf.host, S_PIXELGUN) \/ C9_PixelgunMarker(pf.url))
            /\ (C9_HostHas(pf.host, S_FYBER) \/ C9_FyberMarker(pf.url)))
              => pf.target = TARGETS.fyber
        /\ (/\ ~(C9_HostHas(pf.host, S_PIXELGUN) \/ C9_PixelgunMarker(pf.url))
            /\ ~(C9_HostHas(pf.host, S_FYBER) \/ C9_FyberMarker(pf.url)))
              => pf.target = TARGETS.bcw

\* C9 holds of the resolver of gateway.js
C9_FirstMatchWinsInGatewayJs ==
    (pf.kind = "target" /\ pf.variant = "gateway.js") => C9_FirstMatchWins

\* C10: a request whose host names fyber and whose path has neither a
\* Pixelgun marker nor a Fyber marker resolves to Fyber.
C10_FyberHostAlone ==
    (/\ pf.kind = "target" /\ pf.st = "done"
     /\ Includes(pf.host, S_FYBER)
     /\ ~C9_PixelgunMarker(pf.url)
     /\ ~C9_FyberMarker(pf.url))
    => pf.target = TARGETS.fyber

\* C10 holds of the resolver of gateway.js
C10_FyberHostAloneInGatewayJs ==
    (pf.kind = "target" /\ pf.variant = "gateway.js") => C10_FyberHostAlone

----------------------------------------------------------------------------
(* Properties of the query rewrite, under SpecQuery.                       *)

\* the parameter of a query under a key, if any
C8_Param(query, key) == {query[i] : i \in {j \in 1..Len(query) : query[j].key = key}}

C8_String(key, val) == {[key |-> key, vals |-> <<val>>, arr |-> FALSE]}

\* applying the rewrite to its own output yields the parameters of applying
\* it once, and platform, os_name and client hold the iOS values
C8_IdempotentAndForced ==
    LET once == UrlParse(pf.once).query
    IN  /\ UrlParse(pf.twice).query = once
        /\ C8_Param(once, K_PLATFORM) = C8_String(K_PLATFORM, V_IOS)
        /\ C8_Param(once, K_OS_NAME) = C8_String(K_OS_NAME, V_IPHONE_OS)
        /\ C8_Param(once, K_CLIENT) = C8_String(K_CLIENT, V_IOS)

\* as the claim has it: key is set to val only if absent from the inbound
\* query, and an existing one is preserved
C8_SetOnlyIfAbsent(key, val) ==
    LET inbound == UrlParse(pf.path).query
        once == UrlParse(pf.once).query
    IN  C8_Param(once, key) =
            IF HasKey(inbound, key) THEN C8_Param(inbound, key)
            ELSE C8_String(key, val)

\* as the code has it: key is set to val if the inbound query holds no
\* value or the empty string under it, and any other value is preserved
C8_SetOnlyIfFalsy(key, val) ==
    LET inbound == UrlParse(pf.path).query
        once == UrlParse(pf.once).query
        given == C8_Param(inbound, key)
    IN  C8_Param(once, key) =
            IF given = {} \/ given = C8_String(key, <<>>)
            THEN C8_String(key, val)
            ELSE given

\* C8 (as stated): the rewrite is idempotent on the query parameters,
\* forces platform, os_name and client, sets phone_model and manufacturer
\* only if absent, preserves an existing signature and gives an absent one
\* the placeholder.
C8_RewriteAsStated ==
    (pf.kind = "query" /\ pf.st = "twice") =>
        /\ C8_IdempotentAndForced
        /\ C8_SetOnlyIfAbsent(K_PHONE_MODEL, V_IPAD157)
        /\ C8_SetOnlyIfAbsent(K_MANUFACTURER, V_APPLE)
        /\ C8_SetOnlyIfAbsent(K_SIGNATURE, V_BYPASS)

\* C8 (amended): the rewrite is idempotent on the query parameters, forces
\* platform, os_name and client, and sets phone_model, manufacturer and
\* signature to their defaults when the inbound query has none or an empty
\* one; any other value of the three is preserved.
C8_RewriteIdempotent ==
    (pf.kind = "query" /\ pf.st = "twice") =>
        /\ C8_IdempotentAndForced
        /\ C8_SetOnlyIfFalsy(K_PHONE_MODEL, V_IPAD157)
        /\ C8_SetOnlyIfFalsy(K_MANUFACTURER, V_APPLE)
        /\ C8_SetOnlyIfFalsy(K_SIGNATURE, V_BYPASS)

\* rewritten twice: an inbound query with an empty phone_model and a
\* signature of its own, which got the default model and kept the signature
C8_Witness ==
    /\ pf.kind = "query" /\ pf.st = "twice"
    /\ pf.twice = pf.once
    /\ C8_Param(UrlParse(pf.path).query, K_PHONE_MODEL)
           = C8_String(K_PHONE_MODEL, <<>>)
    /\ C8_Param(UrlParse(pf.once).query, K_PHONE_MODEL)
           = C8_String(K_PHONE_MODEL, V_IPAD157)
    /\ C8_Param(UrlParse(pf.once).query, K_SIGNATURE)
           = C8_String(K_SIGNATURE, <<"a", "%", "2", "0", "b">>)

----------------------------------------------------------------------------
(* Properties of a request's way through the gateway, under SpecFlow and   *)
(* SpecFlowLive.                                                           *)

\* the request with this id is with the proxy, its forward not yet ended
C11_Pending(id) == id <= Len(track) /\ track[id].state = "forwarded"

\* the request with this id has been answered from a mock or an endpoint of
\* the gateway, recorded with the response of the upstream, or failed
C11_Terminal(id) ==
    /\ id <= Len(track)
    /\ track[id].state \in {"served", "mockServed", "recorded", "failed"}

\* a request is sent at most once, to the target resolved for it, and one
\* that failed went from its forward straight to the error response
C11_ForwardedOnce ==
    /\ \A o1, o2 \in outbound : o1.id = o2.id => o1 = o2
    /\ \A o \in outbound : o.target = pickTarget(o.host, o.url)
    /\ \A id \in 1..Len(track) :
          track[id].state = "failed" =>
              /\ track[id].steps =
                     <<"mockCheck", "pickTarget", "onProxyReq", "forward",
                       "error">>
              /\ Cardinality({o \in outbound : o.id = id}) = 1
    /\ last.by = "proxyError" =>
          last.status >= 500 /\ track[last.id].state = "failed"

----------------------------------------------------------------------------
(* Properties of GET /_admin/recent, under SpecRecent.                     *)

\* C12: GET /_admin/recent answers with at most 50 entries, the ones most
\* recently recorded among those in the ring buffer, newest first; and what
\* it answered stays as it is when more responses are recorded.
C12_RecentNewestFirst ==
    [][/\ (last'.id # last.id /\ last'.by = "adminRecent") =>
              LET n    == Len(recentRequests)
                  m    == IF n < 50 THEN n ELSE 50
                  list == last'.body.list.recent
              IN  /\ Len(list) = m
                  /\ \A i \in 1..m : list[i] = recentRequests[n - i + 1]
       /\ last'.id = last.id => last' = last]_vars

\* the list was asked for when 51 entries were in the buffer: it has the
\* 50 newest, the 51st first, and another response has been recorded since
C12_Witness ==
    /\ last.by = "adminRecent"
    /\ last.body.list.count = 51
    /\ Len(last.body.list.recent) = 50
    /\ last.body.list.recent[1].id = 51
    /\ last.body.list.recent[50].id = 2
    /\ Len(recentRequests) = 52

----------------------------------------------------------------------------
(* Properties of the order of a request's steps, under SpecFlow.           *)

\* the steps of a request up to its forward
C13_UpToForward == <<"mockCheck", "pickTarget", "onProxyReq", "forward">>

C13_EntryOfLast == {recorded[i] : i \in {j \in 1..Len(recorded) :
                                            recorded[j].id = last.id}}

----------------------------------------------------------------------------
(* Properties of the entries of the ring buffer, under SpecFlow.           *)

\* the positions in recorded of the entries of the request with this id
C14_EntriesOf(id) == {i \in 1..Len(recorded) : recorded[i].id = id}

\* C14: an entry is created once for a request that got the response of
\* the upstream, and never for a request served from a mock or by an
\* endpoint of the gateway, nor for one whose forward failed or has not
\* ended; the ids of the entries in the buffer differ pairwise; and an
\* entry in the buffer is as it was recorded.
C14_OneEntryPerResponse ==
    /\ \A id \in 1..Len(track) :
          Cardinality(C14_EntriesOf(id)) =
              IF track[id].state = "recorded" THEN 1 ELSE 0
    /\ \A i \in 1..Len(recorded) : recorded[i].id \in 1..Len(track)
    /\ \A i, j \in 1..Len(recentRequests) :
          recentRequests[i].id = recentRequests[j].id => i = j
    /\ \A k \in 1..Len(recentRequests) :
          \E i \in 1..Len(recorded) : recorded[i] = recentRequests[k]

\* three requests: one served by an endpoint of the gateway, one whose
\* forward failed, one answered by the upstream, which has the one entry
C14_Witness ==
    /\ Len(track) = 3
    /\ \E a, b, c \in 1..3 :
          /\ track[a].state = "served"
          /\ track[b].state = "failed"
          /\ track[c].state = "recorded"
          /\ Len(recentRequests) = 1
          /\ recentRequests[1].id = c

----------------------------------------------------------------------------
(* Cancellation, under SpecFlow.  A client can only go while its request    *)
(* is in flight, that is before the upstream has responded.                 *)

\* C15: a request whose client disconnected before the upstream responded
\* never gets an entry in the ring buffer, even if the response of the
\* upstream arrives afterwards.
C15_NoEntryAfterDisconnect ==
    \A id \in 1..Len(track) :
        track[id].gone =>
            /\ track[id].state # "recorded"
            /\ \A i \in 1..Len(recorded) : recorded[i].id # id

----------------------------------------------------------------------------
(* Requests in flight together, under SpecFlow: the responses of the       *)
(* upstream arrive in any order, and mocks are set and cleared meanwhile.  *)

\* the number of entries that have left the buffer
C16_Evicted == Len(recorded) - Len(recentRequests)

\* the set operations on this path that the admin endpoint has carried out
C16_SetsOf(p) ==
    {k \in 1..Len(adminLog) :
        adminLog[k].op = "set" /\ adminLog[k].json.path = p}

----------------------------------------------------------------------------
(* onProxyReq on its own, under SpecOutbound.                               *)

\* onProxyReq of gateway.js has run on the input of this run
C17_Normalized == pf.st = "done" /\ pf.variant = "gateway.js"

\* C17: when the query rewrite fails, in url.parse or in url.format after
\* the parameters were set on the parsed query, the proxied request keeps the
\* path and the query string that it had, whole, and it still gets the
\* headers and the body that it gets when the rewrite succeeds.
C17_FailOpenQueryRewrite ==
    (C17_Normalized /\ pf.throwAt # "none") =>
        /\ pf.out.path = pf.url
        /\ pf.out.headers.ua = IOS_UA
        /\ pf.out.headers.platformOverride = "iOS"
        /\ pf.out.headers.tag = "ybcw-gate"
        /\ pf.out.headers.requestId = 1
        /\ LET ok == OnProxyReq(1, pf.url, RawBody(pf.body), "none")
           IN  /\ pf.out.headers = ok.headers
               /\ pf.out.written = ok.written
               /\ pf.out.contentLength = ok.contentLength
        /\ pf.body = S_ANDROID =>
              /\ pf.out.written = {S_IOS}
              /\ pf.out.contentLength = {Len(S_IOS)}

\* url.format failed on a request that has a query string and a body with
\* android in it: the path is as it came, and the body went out rewritten
C17_Witness ==
    /\ C17_Normalized
    /\ pf.throwAt = "format"
    /\ pf.url = U_BCW3D_ANDROID
    /\ pf.out.path = U_BCW3D_ANDROID
    /\ pf.body = S_ANDROID
    /\ pf.out.written = {S_IOS}

----------------------------------------------------------------------------
(* The inbound request and its forwarded copy, under SpecFlow.              *)

\* the request with this id as the client sent it (method, url, ua, body)
\* and as it was forwarded (req)
C18_Sent(id) == CHOOSE o \in outbound : o.id = id

\* the entry of a request has the User-Agent, the url and the method that
\* the client sent, while the forwarded copy has the iOS User-Agent and the
\* rewritten query; the entry of a request with a body says so; and the
\* response rewrite goes by the User-Agent and the url that the client sent
C18_EntryOfInbound ==
    /\ \A i \in 1..Len(recorded) :
          LET e == recorded[i]
              o == C18_Sent(e.id)
          IN  /\ e.ua = o.ua
              /\ e.url = o.url
              /\ e.method = o.method
              /\ o.req.headers.ua = IOS_UA
              /\ Includes(o.req.path, K_PLATFORM \o <<"=">> \o V_IOS)
              /\ o.body # <<>> => e.requestBody = "[present]"
    /\ (last.by = "proxy" /\ last.status = 200) =>
          LET o == C18_Sent(last.id)
          IN  last.body.bytes =
                  IF isLikelyAndroid(o.ua, o.url) THEN <<"a">> \o S_ANDROID_JSON
                  ELSE <<"a">> \o S_IOS_JSON

\* C18: the outbound normalization leaves the inbound request as it was: the
\* classification at response time and the ua, url, method and request body
\* of the recorded entry are those of the request that the client sent (the
\* entry says that a body is present exactly when the client sent one).
C18_InboundUnchanged ==
    /\ C18_EntryOfInbound
    /\ \A i \in 1..Len(recorded) :
          recorded[i].requestBody =
              IF C18_Sent(recorded[i].id).body # <<>> THEN "[present]" ELSE ""

----------------------------------------------------------------------------
(* The body of the forwarded request, under SpecOutbound.                   *)

\* the inbound body with every occurrence of android, in any case, replaced
C19_Rewritten(body) == ReplaceAll(body, S_ANDROID, S_IOS, TRUE)

\* the three parts of C19 on the request of this run
C19_BodyAsClaimed ==
    /\ pf.sent = C19_Rewritten(pf.body)
    /\ \A w \in pf.out.written : pf.out.contentLength = {Len(w)}
    /\ pf.body = <<>> => pf.out.written = {}

\* C19: the body that the upstream gets is the inbound body with every
\* occurrence of android, in any case, replaced by ios, the content-length
\* set is the number of bytes written, and nothing is written for a request
\* whose inbound body is empty.
C19_BodyRewritten == pf.st = "done" => C19_BodyAsClaimed

\* the same for gateway.js alone, on a body of ASCII text, and on an empty
\* body when the parser leaves req.body undefined
C19_BodyRewrittenOfText ==
    (/\ pf.st = "done"
     /\ pf.variant = "gateway.js"
     /\ \A i \in 1..Len(pf.body) : pf.body[i] # BYTE_FF
     /\ pf.body = <<>> => pf.emptyBody = BODY_UNDEFINED)
        => C19_BodyAsClaimed

====
